---- MODULE Spec2Model ----
(***************************************************************************)
(* cloud-deploy: nodes reached over SSH, Docker services on them, and the  *)
(* local cache file of service listings.                                   *)
(*                                                                         *)
(* Python values: a response of _remote_execute is a record                *)
(* [none, text, data]; none = TRUE is Python's None, text is the captured  *)
(* standard output and data is what json.loads(text) yields.  The string   *)
(* NoneStr stands for None in a Service attribute.                         *)
(***************************************************************************)
EXTENDS Integers, Sequences, FiniteSets, TLC

VARIABLES
    keys,       \* which candidate key files exist under ~/.ssh
    docker,     \* the containers of each node, in creation order
    nextId,     \* number of the next container id the daemon hands out
    svc,        \* the Service object the caller holds
    op,         \* the operation the caller invoked on it
    cont,       \* the steps of that operation still to run
    old_id,     \* redeploy's local variable old_id
    pending,    \* exception propagating through redeploy's except/finally
    launchExc,  \* exception launch() raised inside redeploy's try
    result,     \* how the operation ended, and with what
    log,        \* the _remote_execute calls of the operation, in order
    last,       \* the latest _remote_execute call: its attempts and outcome
    connLost,   \* some call of the operation failed to connect with every key
    ops,        \* operations begun so far
    cache,      \* content of the cache file
    listing,    \* last call of Node.services: arguments and outcome
    wrote,      \* per node, the list last handed to _save_services_to_cache
    inv,        \* the two tool invocations racing on the cache file
    cli,        \* last listing made through list_services: call and outcome
    listed,     \* the names of the nodes the providers list, in order
    got         \* last call of get_node: argument and outcome

vars == <<keys, docker, nextId, svc, op, cont, old_id, pending, launchExc,
          result, log, last, connLost, ops, cache, listing, wrote, inv, cli, listed, got>>

----------------------------------------------------------------------------
(* Bounds *)

MaxOps == 1          \* Service operations per behaviour

----------------------------------------------------------------------------
(* Python values *)

NoneStr == "<None>"

None == [none |-> TRUE, text |-> "", data |-> <<>>]

Text(s) == [none |-> FALSE, text |-> s, data |-> <<>>]

NoExc == [type |-> "", detail |-> None]

Exc(t, d) == [type |-> t, detail |-> d]

\* the exceptions the code meets, with the text they carry
NoKeyError ==
    Exc("Exception", Text("No key from ~/.ssh/ matches the list_possible_keys_format ['id_dsa', 'id_rsa']"))
NotIterable == Exc("TypeError", Text("argument of type 'NoneType' is not iterable"))
NotJson == Exc("TypeError", Text("the JSON object must be str, bytes or bytearray, not NoneType"))
NoStrip == Exc("AttributeError", Text("'NoneType' object has no attribute 'strip'"))
NoWrite == Exc("TypeError", Text("write() argument must be str, not None"))
RunProcessError == Exc("RunProcessError", Text("return code: 1"))

\* the element of a set of one: The({F(v) : v \in {e}}) is F(e), with e
\* evaluated once
The(S) == CHOOSE v \in S : TRUE

\* str.__contains__: m in s
Contains(m, s) ==
    \E i \in 1..(Len(s) - Len(m) + 1) : SubSeq(s, i, i + Len(m) - 1) = m

IsSpace(c) == c \in {" ", "\n", "\t"}

\* str.strip()
RECURSIVE LStrip(_)
LStrip(s) ==
    IF Len(s) > 0 /\ IsSpace(SubSeq(s, 1, 1))
    THEN LStrip(SubSeq(s, 2, Len(s))) ELSE s

RECURSIVE RStrip(_)
RStrip(s) ==
    IF Len(s) > 0 /\ IsSpace(SubSeq(s, Len(s), Len(s)))
    THEN RStrip(SubSeq(s, 1, Len(s) - 1)) ELSE s

Strip(s) == RStrip(LStrip(s))

\* str.split(sep) for a one-character separator
RECURSIVE SplitFrom(_, _, _, _)
SplitFrom(s, sep, i, start) ==
    IF i > Len(s) THEN <<SubSeq(s, start, Len(s))>>
    ELSE IF SubSeq(s, i, i) = sep
         THEN <<SubSeq(s, start, i - 1)>> \o SplitFrom(s, sep, i + 1, i + 1)
         ELSE SplitFrom(s, sep, i + 1, start)

Split(s, sep) == SplitFrom(s, sep, 1, 1)

\* sep.join(parts)
RECURSIVE Join(_, _)
Join(sep, parts) ==
    IF parts = <<>> THEN ""
    ELSE IF Len(parts) = 1 THEN parts[1]
    ELSE parts[1] \o sep \o Join(sep, Tail(parts))

----------------------------------------------------------------------------
(* The node's Docker daemon, as the commands of the repository see it *)

Nodes == {"n1", "n2"}
SvcNode == "n1"
SvcName == "web"
SvcImage == "foo:latest"
OtherName == "db"
OtherImage == "pg:9"

Container(id, name, image, status) ==
    [id |-> id, name |-> name, image |-> image, status |-> status]

Ids(d) == {d[i].id : i \in 1..Len(d)}
Names(d) == {d[i].name : i \in 1..Len(d)}
ById(d, id) == d[CHOOSE i \in 1..Len(d) : d[i].id = id]
Named(d, name) == {d[i] : i \in {j \in 1..Len(d) : d[j].name = name}}

SetStatus(d, id, st) ==
    [i \in 1..Len(d) |-> IF d[i].id = id THEN [d[i] EXCEPT !.status = st] ELSE d[i]]

SetName(d, old, new) ==
    [i \in 1..Len(d) |-> IF d[i].name = old THEN [d[i] EXCEPT !.name = new] ELSE d[i]]

Remove(d, id) == SelectSeq(d, LAMBDA c : c.id # id)

\* docker ps -q [-a]: ids, newest first, one per line
RECURSIVE PsText(_, _)
PsText(d, all) ==
    IF d = <<>> THEN ""
    ELSE LET c == d[Len(d)]
             rest == PsText(SubSeq(d, 1, Len(d) - 1), all)
         IN IF all \/ c.status = "running" THEN c.id \o "\n" \o rest ELSE rest

\* docker inspect <id>: the payload Service.from_json and update_status read
InspectData(c) ==
    <<[Id |-> c.id, Name |-> "/" \o c.name, Image |-> c.image, Status |-> c.status]>>

Exit(d, n, code, out) == [d |-> d, n |-> n, code |-> code, out |-> out]

\* What one execution of argv does on the node.  txt is the output of a
\* program whose behaviour the repository does not determine.
DockerExec(d, n, argv, txt) ==
    IF argv[1] # "docker" THEN Exit(d, n, 0, Text(txt))
    ELSE CASE argv[2] = "stop" ->
                IF argv[3] \in Ids(d)
                THEN Exit(SetStatus(d, argv[3], "exited"), n, 0, Text(argv[3] \o "\n"))
                ELSE Exit(d, n, 1, None)
           [] argv[2] = "start" ->
                IF argv[3] \in Ids(d)
                THEN Exit(SetStatus(d, argv[3], "running"), n, 0, Text(argv[3] \o "\n"))
                ELSE Exit(d, n, 1, None)
           [] argv[2] = "rename" ->
                IF argv[3] \in Names(d) /\ argv[4] \notin Names(d)
                THEN Exit(SetName(d, argv[3], argv[4]), n, 0, Text(""))
                ELSE Exit(d, n, 1, None)
           [] argv[2] = "rm" ->
                IF argv[4] \in Ids(d)
                THEN Exit(Remove(d, argv[4]), n, 0, Text(argv[4] \o "\n"))
                ELSE Exit(d, n, 1, None)
           [] argv[2] = "run" ->
                LET name == SubSeq(argv[4], 8, Len(argv[4]))
                    id == "c" \o ToString(n)
                IN IF name \in Names(d) THEN Exit(d, n, 1, None)
                   ELSE Exit(Append(d, Container(id, name, argv[Len(argv)], "running")),
                             n + 1, 0, Text(id \o "\n"))
           [] argv[2] = "inspect" ->
                IF argv[3] \in Ids(d)
                THEN Exit(d, n, 0, [none |-> FALSE, text |-> "json",
                                    data |-> InspectData(ById(d, argv[3]))])
                ELSE Exit(d, n, 1, None)
           [] argv[2] = "ps" -> Exit(d, n, 0, Text(PsText(d, Len(argv) = 4)))
           [] argv[2] = "logs" ->
                IF argv[3] \in Ids(d) THEN Exit(d, n, 0, Text("log of " \o argv[3]))
                ELSE Exit(d, n, 1, None)
           [] OTHER -> Exit(d, n, 1, None)

----------------------------------------------------------------------------
(* Node._remote_execute *)

list_possible_keys_format == <<"id_dsa", "id_rsa">>

\* What an attempt with one key can come to: the connection fails, the
\* command starts and exits non-zero, or the command runs on the daemon.
Outcome == {"conn", "err", "ok"}

\* The first loop: the configuration error is raised when a missing key is
\* the last of the list.
NoKeyRaised(k) ==
    \E i \in 1..Len(list_possible_keys_format) :
        /\ ~k[list_possible_keys_format[i]]
        /\ list_possible_keys_format[Len(list_possible_keys_format)]
               = list_possible_keys_format[i]

\* The second loop, from the i-th key on: every exception of an attempt is
\* swallowed and the next key is tried; falling off the loop returns None.
RECURSIVE TryKeys(_, _, _, _, _, _, _, _)
TryKeys(i, k, d, n, argv, outs, txt, tried) ==
    IF i > Len(list_possible_keys_format)
    THEN [d |-> d, n |-> n, resp |-> None, tried |-> tried]
    ELSE The({IF o = "ok" /\ r.code = 0
              THEN [d |-> r.d, n |-> r.n, resp |-> r.out, tried |-> Append(tried, "ok")]
              ELSE TryKeys(i + 1, k, d, n, argv, outs, txt,
                           Append(tried, IF o = "ok" THEN "err" ELSE o)) :
                  o \in {IF k[list_possible_keys_format[i]] THEN outs[i] ELSE "conn"},
                  r \in {DockerExec(d, n, argv, txt)}})

\* A call of _remote_execute(cmd): exc is the exception it raises (NoExc
\* when it returns), resp what it returns, tried the fate of each attempt.
RemoteExecute(k, d, n, argv, outs, txt) ==
    IF NoKeyRaised(k)
    THEN [d |-> d, n |-> n, resp |-> None, tried |-> <<>>,
          exc |-> NoKeyError, argv |-> argv]
    ELSE The({[d |-> r.d, n |-> r.n, resp |-> r.resp, tried |-> r.tried,
               exc |-> NoExc, argv |-> argv] :
                  r \in {TryKeys(1, k, d, n, argv, outs, txt, <<>>)}})

----------------------------------------------------------------------------
(* Service *)

\* Config and HostConfig of the containers of an image, as docker inspect
\* reports them.
ConfigOf(image) ==
    IF image = SvcImage
    THEN [Env |-> <<"A=1", "B=x=y">>,
          Ports |-> [p \in {"80/tcp", "443/tcp"} |->
                        IF p = "443/tcp" THEN "8443" ELSE NoneStr],
          Binds |-> <<"/data:/data">>]
    ELSE [Env |-> <<"PGDATA=/var/pg">>,
          Ports |-> [p \in {"5432/tcp"} |-> "5432"],
          Binds |-> <<>>]

\* Service.__init__
Service(name, image, status, id, ports, env, volumes) ==
    [name |-> name, image |-> image, status |-> status, id |-> id,
     ports |-> ports, env |-> env, volumes |-> volumes]

\* "{}".format(x)
Str(x) == IF x = NoneStr THEN "None" ELSE x

\* the for loop over raw_ports of from_json
FromJsonPorts(raw) ==
    LET bound == {k \in DOMAIN raw : raw[k] # NoneStr}
        short(k) == Split(k, "/")[1]
    IN [p \in {short(k) : k \in bound} |->
           raw[CHOOSE k \in bound : short(k) = p]]

\* the for loop over raw_env of from_json
EnvValue(item) == Join("", Tail(Split(item, "=")))

FromJsonEnv(raw) ==
    LET key(item) == Split(item, "=")[1]
        lastOf(k) == CHOOSE i \in 1..Len(raw) :
                       /\ key(raw[i]) = k
                       /\ \A j \in 1..Len(raw) : key(raw[j]) = k => j <= i
    IN [k \in {key(raw[i]) : i \in 1..Len(raw)} |-> EnvValue(raw[lastOf(k)])]

\* the for loop over volume_data of from_json
FromJsonVolumes(binds) == [i \in 1..Len(binds) |-> Split(binds[i], ":")[1]]

\* Service.from_json on the payload of a response that is not None
FromJson(resp) ==
    LET data == resp.data[1]
        cfg == ConfigOf(data.Image)
    IN Service(SubSeq(data.Name, 2, Len(data.Name)), data.Image, data.Status,
               data.Id, FromJsonPorts(cfg.Ports), FromJsonEnv(cfg.Env),
               FromJsonVolumes(cfg.Binds))

NewService(name, image) == Service(name, image, NoneStr, NoneStr, <<>>, <<>>, <<>>)

----------------------------------------------------------------------------
(* Control of the running operation *)

Pending == [kind |-> "none", exc |-> NoExc, value |-> None]
Returned(v) == [kind |-> "returned", exc |-> NoExc, value |-> v]
Raised(e) == [kind |-> "raised", exc |-> e, value |-> None]

PullSteps == <<"password", "login", "pull">>
LaunchSteps == PullSteps \o <<"run", "inspect">>

\* bodies in which redeploy stops the container before it pulls the image
Body_StopFirst(o) ==
    CASE o = "redeploy" -> <<"stop", "inspect">> \o PullSteps \o <<"rename_old", "try">>
                           \o LaunchSteps \o <<"end_try", "rm_old">>
      [] o = "launch" -> LaunchSteps
      [] o = "start" -> <<"start", "inspect">>
      [] o = "stop" -> <<"stop", "inspect">>
      [] o = "terminate" -> <<"rm">>
      [] o = "logs" -> <<"logs">>
      [] o = "update_status" -> <<"inspect">>
      [] o = "pull" -> PullSteps
      [] o = "rename_service" -> <<"rename_old">>
      [] o = "get_service" -> <<"get_service">>

\* The bodies of the public operations as the steps they run.
Body(o) ==
    CASE o = "redeploy" -> PullSteps \o <<"stop", "inspect", "rename_old", "try">>
                           \o LaunchSteps \o <<"end_try", "rm_old">>
      [] o = "launch" -> LaunchSteps
      [] o = "start" -> <<"start", "inspect">>
      [] o = "stop" -> <<"stop", "inspect">>
      [] o = "terminate" -> <<"rm">>
      [] o = "logs" -> <<"logs">>
      [] o = "update_status" -> <<"inspect">>
      [] o = "pull" -> PullSteps
      [] o = "rename_service" -> <<"rename_old">>
      [] o = "get_service" -> <<"get_service">>

Operations == {"redeploy", "launch", "start", "stop", "terminate", "logs",
               "update_status", "pull", "rename_service", "get_service"}

Has(seq, x) == \E i \in 1..Len(seq) : seq[i] = x

RECURSIVE DropMarkers(_)
DropMarkers(seq) ==
    IF seq # <<>> /\ Head(seq) \in {"try", "end_try", "reraise"}
    THEN DropMarkers(Tail(seq)) ELSE seq

\* redeploy's "except spur.RunProcessError" clause
RollbackSteps == <<"rename_back", "start", "inspect", "reraise">>

Handler(e) == IF e.type = "RunProcessError" THEN RollbackSteps ELSE <<>>

\* Where control goes when the step at the head of cont raises e (NoExc:
\* it completes, ret being the value a final return hands back).
Control(e, ret) ==
    LET rest == Tail(cont)
        next == DropMarkers(rest)
    IN IF e # NoExc
       THEN IF Has(rest, "end_try") /\ ~Has(rest, "try")
            THEN [cont |-> Handler(e) \o <<"rm_old">>, pending |-> e,
                  launchExc |-> e, result |-> result]
            ELSE IF Has(rest, "reraise")
            THEN [cont |-> <<"rm_old">>, pending |-> e,
                  launchExc |-> launchExc, result |-> result]
            ELSE [cont |-> <<>>, pending |-> NoExc,
                  launchExc |-> launchExc, result |-> Raised(e)]
       ELSE IF next = <<>>
            THEN [cont |-> <<>>, pending |-> NoExc, launchExc |-> launchExc,
                  result |-> IF pending # NoExc THEN Raised(pending)
                             ELSE Returned(ret)]
            ELSE [cont |-> next, pending |-> pending,
                  launchExc |-> launchExc, result |-> result]

Go(e, ret) ==
    LET c == Control(e, ret)
    IN /\ cont' = c.cont
       /\ pending' = c.pending
       /\ launchExc' = c.launchExc
       /\ result' = c.result

At(label) == cont # <<>> /\ Head(cont) = label

NoCall == [argv |-> <<>>, tried |-> <<>>, exc |-> NoExc, resp |-> None]

\* every attempt of the call ended in a connection failure
ConnectionFailed(tried) ==
    tried # <<>> /\ \A i \in 1..Len(tried) : tried[i] = "conn"

\* One call of self._remote_execute(argv) by the step at the head of cont.
Call(r) ==
    /\ docker' = [docker EXCEPT ![SvcNode] = r.d]
    /\ nextId' = r.n
    /\ log' = Append(log, [by |-> Head(cont), argv |-> r.argv])
    /\ last' = [argv |-> r.argv, tried |-> r.tried, exc |-> r.exc, resp |-> r.resp]
    /\ connLost' = (connLost \/ ConnectionFailed(r.tried))

Outs == [1..Len(list_possible_keys_format) -> Outcome]

----------------------------------------------------------------------------
(* The caller: a Service (or Node) operation, one _remote_execute per step *)

InitDocker ==
    {<<>>,
     <<Container("c1", SvcName, SvcImage, "running")>>,
     <<Container("c1", OtherName, OtherImage, "running"),
       Container("c2", SvcName, SvcImage, "running")>>}

KeyStates == [{"id_dsa", "id_rsa"} -> BOOLEAN]

Idle ==
    /\ svc = NewService(SvcName, SvcImage)
    /\ op = "idle"
    /\ cont = <<>>
    /\ old_id = NoneStr
    /\ pending = NoExc
    /\ launchExc = NoExc
    /\ result = Pending
    /\ log = <<>>
    /\ last = NoCall
    /\ connLost = FALSE
    /\ ops = 0

NoCache == [exists |-> FALSE, empty |-> FALSE, doc |-> <<>>]
NoListing ==
    [called |-> FALSE, node |-> "", show_all |-> FALSE, update |-> FALSE,
     path |-> "", cmds |-> <<>>, ret |-> <<>>, exc |-> NoExc,
     connFailed |-> FALSE, hadEntry |-> FALSE, hadFile |-> FALSE]
NoWrites == [x \in Nodes |-> [any |-> FALSE, services |-> <<>>, replaced |-> FALSE]]
NoInv == <<>>
NoCli ==
    [called |-> FALSE, command |-> "", fast |-> FALSE, exc |-> NoExc, ret |-> <<>>,
     paths |-> <<>>, cmds |-> <<>>, had |-> <<>>]
NoLookup == [called |-> FALSE, name |-> "", exc |-> NoExc, ret |-> None]

\* nothing has gone through list_services or get_node
NoLookups == cli = NoCli /\ listed = <<>> /\ got = NoLookup

Init ==
    /\ keys \in KeyStates
    /\ \E d \in InitDocker : docker = [x \in Nodes |-> IF x = SvcNode THEN d ELSE <<>>]
    /\ nextId = Len(docker[SvcNode]) + 1
    /\ Idle
    /\ cache = NoCache
    /\ listing = NoListing
    /\ wrote = NoWrites
    /\ inv = NoInv
    /\ NoLookups

\* The caller gets hold of a Service (cli.py builds a new one for launch and
\* finds an existing one by name otherwise) and invokes o.
Begin(o) ==
    /\ cont = <<>>
    /\ ops < MaxOps
    /\ IF o = "launch"
       THEN svc' = NewService(SvcName, SvcImage)
       ELSE \E c \in Named(docker[SvcNode], SvcName) :
                svc' = FromJson([none |-> FALSE, text |-> "json",
                                 data |-> InspectData(c)])
    /\ op' = o
    /\ cont' = Body(o)
    /\ old_id' = NoneStr
    /\ pending' = NoExc
    /\ launchExc' = NoExc
    /\ result' = Pending
    /\ log' = <<>>
    /\ last' = NoCall
    /\ connLost' = FALSE
    /\ ops' = ops + 1
    /\ UNCHANGED <<keys, docker, nextId, cache, listing, wrote, inv, cli, listed, got>>

\* get_docker_password(): a local command, whose failure is a RunProcessError
GetDockerPassword ==
    /\ At("password")
    /\ \E ok \in BOOLEAN :
           Go(IF ok THEN NoExc ELSE RunProcessError, None)
    /\ UNCHANGED <<keys, docker, nextId, svc, op, old_id, log, last, connLost,
                   ops, cache, listing, wrote, inv, cli, listed, got>>

\* shlex.split of the two command strings of Node.pull
LoginArgv == <<"f{self.sudo_cmd}docker", "login", "--username={DOCKER_USER}",
               "--password={docker_password}">>
PullArgv == <<"f{self.sudo_cmd}docker", "pull", "{image}">>

LoginOutputs == {"Login Succeeded\n"}
PullOutputs == {"Status: Image is up to date for foo:latest\n",
                "Status: Downloaded newer image for foo:latest\n",
                "Error response from daemon: pull access denied\n",
                ""}

\* Node.pull: result1 = self._remote_execute(cmd)
Login ==
    /\ At("login")
    /\ \E outs \in Outs, txt \in LoginOutputs :
           LET r == RemoteExecute(keys, docker[SvcNode], nextId, LoginArgv, outs, txt)
           IN Call(r) /\ Go(r.exc, None)
    /\ UNCHANGED <<keys, svc, op, old_id, ops, cache, listing, wrote, inv, cli, listed, got>>

\* the if/else at the end of Node.pull
PullVerdict(result2) ==
    IF result2.none THEN NotIterable
    ELSE IF Contains("Downloaded newer image", result2.text)
            \/ Contains("Image is up to date", result2.text)
    THEN NoExc
    ELSE Exc("Exception", result2)

\* Node.pull: result2 = self._remote_execute(...) and the verdict on it
Pull ==
    /\ At("pull")
    /\ \E outs \in Outs, txt \in PullOutputs :
           LET r == RemoteExecute(keys, docker[SvcNode], nextId, PullArgv, outs, txt)
           IN /\ Call(r)
              /\ Go(IF r.exc # NoExc THEN r.exc ELSE PullVerdict(r.resp),
                    Text("True"))
    /\ UNCHANGED <<keys, svc, op, old_id, ops, cache, listing, wrote, inv, cli, listed, got>>

\* Service.stop, up to its call of update_status
Stop ==
    /\ At("stop")
    /\ \E outs \in Outs :
           LET r == RemoteExecute(keys, docker[SvcNode], nextId,
                                  <<"docker", "stop", Str(svc.id)>>, outs, "")
           IN Call(r) /\ Go(r.exc, None)
    /\ UNCHANGED <<keys, svc, op, old_id, ops, cache, listing, wrote, inv, cli, listed, got>>

\* Service.start, up to its call of update_status
Start ==
    /\ At("start")
    /\ \E outs \in Outs :
           LET r == RemoteExecute(keys, docker[SvcNode], nextId,
                                  <<"docker", "start", Str(svc.id)>>, outs, "")
           IN Call(r) /\ Go(r.exc, None)
    /\ UNCHANGED <<keys, svc, op, old_id, ops, cache, listing, wrote, inv, cli, listed, got>>

\* json.loads(response)[0] of a response that may be None
JsonLoadsExc(response) == IF response.none THEN NotJson ELSE NoExc

\* Service.update_status
UpdateStatus ==
    /\ At("inspect")
    /\ \E outs \in Outs :
           LET r == RemoteExecute(keys, docker[SvcNode], nextId,
                                  <<"docker", "inspect", Str(svc.id)>>, outs, "")
               e == IF r.exc # NoExc THEN r.exc ELSE JsonLoadsExc(r.resp)
           IN /\ Call(r)
              /\ Go(e, None)
              /\ svc' = IF e = NoExc
                        THEN [svc EXCEPT !.status = r.resp.data[1].Status]
                        ELSE svc
    /\ UNCHANGED <<keys, op, old_id, ops, cache, listing, wrote, inv, cli, listed, got>>

\* Node.rename_service; in redeploy the assignment old_id = self.id follows
RenameService ==
    /\ At("rename_old") \/ At("rename_back")
    /\ \E outs \in Outs :
           LET old == IF At("rename_old") THEN svc.name ELSE svc.name \o "-old"
               new == IF At("rename_old") THEN svc.name \o "-old" ELSE svc.name
               r == RemoteExecute(keys, docker[SvcNode], nextId,
                                  <<"docker", "rename", old, new>>, outs, "")
           IN /\ Call(r)
              /\ Go(r.exc, None)
              /\ old_id' = IF r.exc = NoExc /\ op = "redeploy" /\ At("rename_old")
                           THEN svc.id ELSE old_id
    /\ UNCHANGED <<keys, svc, op, ops, cache, listing, wrote, inv, cli, listed, got>>

\* Service.launch after its pull, up to its call of update_status
LaunchRun ==
    /\ At("run")
    /\ \E outs \in Outs :
           LET argv == <<"docker", "run", "-d", "--name=" \o svc.name, svc.image>>
               r == RemoteExecute(keys, docker[SvcNode], nextId, argv, outs, "")
               e == IF r.exc # NoExc THEN r.exc
                    ELSE IF r.resp.none THEN NoStrip
                    ELSE NoExc
           IN /\ Call(r)
              /\ Go(e, None)
              /\ svc' = IF e = NoExc THEN [svc EXCEPT !.id = Strip(r.resp.text)]
                        ELSE svc
    /\ UNCHANGED <<keys, op, old_id, ops, cache, listing, wrote, inv, cli, listed, got>>

\* Node.terminate_service, called by Service.terminate with self.id and by
\* redeploy's finally clause with old_id
TerminateService ==
    /\ At("rm") \/ At("rm_old")
    /\ \E outs \in Outs :
           LET id == IF At("rm_old") THEN old_id ELSE svc.id
               r == RemoteExecute(keys, docker[SvcNode], nextId,
                                  <<"docker", "rm", "-f", Str(id)>>, outs, "")
           IN Call(r) /\ Go(r.exc, None)
    /\ UNCHANGED <<keys, svc, op, old_id, ops, cache, listing, wrote, inv, cli, listed, got>>

\* Service.logs(filename)
Logs ==
    /\ At("logs")
    /\ \E outs \in Outs, filename \in BOOLEAN :
           LET r == RemoteExecute(keys, docker[SvcNode], nextId,
                                  <<"docker", "logs", Str(svc.id)>>, outs, "")
               e == IF r.exc # NoExc THEN r.exc
                    ELSE IF filename /\ r.resp.none THEN NoWrite
                    ELSE NoExc
           IN /\ Call(r)
              /\ Go(e, IF filename THEN Text("filename") ELSE r.resp)
    /\ UNCHANGED <<keys, svc, op, old_id, ops, cache, listing, wrote, inv, cli, listed, got>>

\* Node.get_service
GetService ==
    /\ At("get_service")
    /\ \E outs \in Outs :
           LET r == RemoteExecute(keys, docker[SvcNode], nextId,
                                  <<"docker", "inspect", Str(svc.id)>>, outs, "")
               e == IF r.exc # NoExc THEN r.exc ELSE JsonLoadsExc(r.resp)
           IN /\ Call(r)
              /\ Go(e, r.resp)
    /\ UNCHANGED <<keys, svc, op, old_id, ops, cache, listing, wrote, inv, cli, listed, got>>

Next ==
    \/ \E o \in Operations : Begin(o)
    \/ GetDockerPassword
    \/ Login
    \/ Pull
    \/ Stop
    \/ Start
    \/ UpdateStatus
    \/ RenameService
    \/ LaunchRun
    \/ TerminateService
    \/ Logs
    \/ GetService

Spec == Init /\ [][Next]_vars

----------------------------------------------------------------------------
(* The cache file: json.dump and json.load *)

\* json.dumps of a str or None, and json.loads of the result
DumpScalar(x) == IF x = NoneStr THEN "null" ELSE "\"" \o x \o "\""
LoadScalar(t) == IF t = "null" THEN NoneStr ELSE SubSeq(t, 2, Len(t) - 1)

DumpService(a) ==
    [name |-> DumpScalar(a.name), image |-> DumpScalar(a.image),
     status |-> DumpScalar(a.status), id |-> DumpScalar(a.id),
     ports |-> [p \in DOMAIN a.ports |-> DumpScalar(a.ports[p])],
     env |-> [e \in DOMAIN a.env |-> DumpScalar(a.env[e])],
     volumes |-> [i \in DOMAIN a.volumes |-> DumpScalar(a.volumes[i])]]

LoadService(j) ==
    [name |-> LoadScalar(j.name), image |-> LoadScalar(j.image),
     status |-> LoadScalar(j.status), id |-> LoadScalar(j.id),
     ports |-> [p \in DOMAIN j.ports |-> LoadScalar(j.ports[p])],
     env |-> [e \in DOMAIN j.env |-> LoadScalar(j.env[e])],
     volumes |-> [i \in DOMAIN j.volumes |-> LoadScalar(j.volumes[i])]]

\* json.dump(cache, fp): the document written for the dict cache
JsonDump(c) ==
    [x \in DOMAIN c |->
        [services |-> [i \in DOMAIN c[x].services |-> DumpService(c[x].services[i])]]]

\* json.load(fp): the dict read from a document
JsonLoad(doc) ==
    [x \in DOMAIN doc |->
        [services |-> [i \in DOMAIN doc[x].services |-> LoadService(doc[x].services[i])]]]

\* Node._have_cache
HaveCache(file, x) ==
    IF file.exists THEN x \in DOMAIN JsonLoad(file.doc) ELSE FALSE

\* Node._load_services_from_cache: Service(node=self, **attributes) of each record
LoadServicesFromCache(file, x) ==
    IF HaveCache(file, x)
    THEN LET c == JsonLoad(file.doc)
         IN IF x \in DOMAIN c
            THEN [i \in DOMAIN c[x].services |->
                     LET a == c[x].services[i]
                     IN Service(a.name, a.image, a.status, a.id, a.ports, a.env, a.volumes)]
            ELSE <<>>
    ELSE <<>>

\* the attribute dict _save_services_to_cache builds of a service
Attributes(service) ==
    [name |-> service.name, image |-> service.image, status |-> service.status,
     id |-> service.id, ports |-> service.ports, env |-> service.env,
     volumes |-> service.volumes]

\* a save that starts from an empty dict instead of the dict it has read
Assign_Alone(c, x, entry) ==
    [y \in {x} |-> entry]

\* the dict after cache[self.name] = entry
Assign(c, x, entry) ==
    [y \in DOMAIN c \cup {x} |-> IF y = x THEN entry ELSE c[y]]

\* a save that extends the entry the node already has
UpdatedCache_Merge(c, x, services) ==
    Assign(c, x, [services |->
        (IF x \in DOMAIN c THEN c[x].services ELSE <<>>)
            \o [i \in DOMAIN services |-> Attributes(services[i])]])

\* Node._save_services_to_cache, on the dict it has read
UpdatedCache(c, x, services) ==
    Assign(c, x, [services |-> [i \in DOMAIN services |-> Attributes(services[i])]])

ReadCache(file) == IF file.exists THEN JsonLoad(file.doc) ELSE <<>>

\* the file once open(CACHE_FILE, "w") has truncated it, and once the
\* document json.dump wrote has reached it
Truncated == [exists |-> TRUE, empty |-> TRUE, doc |-> <<>>]

WriteCache(c) == [exists |-> TRUE, empty |-> FALSE, doc |-> JsonDump(c)]

\* a save that leaves the file alone when the list is empty
SaveServicesToCache_NonEmpty(file, x, services) ==
    IF services = <<>> THEN file
    ELSE WriteCache(UpdatedCache(ReadCache(file), x, services))

\* Node._save_services_to_cache run without interruption
SaveServicesToCache(file, x, services) ==
    WriteCache(UpdatedCache(ReadCache(file), x, services))

----------------------------------------------------------------------------
(* Node.services *)

\* shlex.split of the command of Node.services
PsArgv(show_all) ==
    IF show_all THEN <<"docker", "ps", "-q", "-a">> ELSE <<"docker", "ps", "-q">>

\* "if response: ids = response.strip().split('\n') else: ids = []"
IdsOf(response) ==
    IF ~response.none /\ response.text # ""
    THEN Split(Strip(response.text), "\n") ELSE <<>>

\* [self.get_service(id) for id in ids] from the i-th id on; insp[i] is what
\* the attempts of the i-th inspection come to.  The first exception ends it.
RECURSIVE GetServices(_, _, _, _, _, _, _, _)
GetServices(k, d, n, ids, i, insp, acc, cmds) ==
    IF i > Len(ids) THEN [services |-> acc, exc |-> NoExc, cmds |-> cmds]
    ELSE The({The({IF e # NoExc
                   THEN [services |-> acc, exc |-> e, cmds |-> Append(cmds, r.argv)]
                   ELSE GetServices(k, d, n, ids, i + 1, insp,
                                    Append(acc, FromJson(r.resp)),
                                    Append(cmds, r.argv)) :
                       e \in {IF r.exc # NoExc THEN r.exc ELSE JsonLoadsExc(r.resp)}}) :
                  r \in {RemoteExecute(k, d, n, <<"docker", "inspect", ids[i]>>,
                                       insp[i], "")}})

\* What the environment decides during one call of Node.services: the fate
\* of the attempts of the docker ps call and of each inspection (of which
\* only the first that fails shows, since it ends the call; an inspection
\* meets the same fate with every key).
InspectOuts == {[i \in 1..Len(list_possible_keys_format) |-> o] : o \in {"ok", "err"}}

Oracles(n) == [ps : Outs, insp : [1..n -> InspectOuts]]

\* a live branch that lets the connection failure of docker ps out
LiveQuery_Propagates(k, d, n, show_all, oracle) ==
    The({IF r.exc # NoExc
         THEN [cmds |-> <<r.argv>>, ret |-> <<>>, exc |-> r.exc, connFailed |-> FALSE]
         ELSE IF ConnectionFailed(r.tried)
         THEN [cmds |-> <<r.argv>>, ret |-> <<>>,
               exc |-> Exc("ConnectionError", Text("Error creating SSH connection")),
               connFailed |-> TRUE]
         ELSE The({[cmds |-> g.cmds, ret |-> g.services, exc |-> g.exc,
                    connFailed |-> FALSE] :
                       g \in {GetServices(k, d, n, IdsOf(r.resp), 1, oracle.insp,
                                          <<>>, <<r.argv>>)}}) :
             r \in {RemoteExecute(k, d, n, PsArgv(show_all), oracle.ps, "")}})

\* The live branch of Node.services, up to the assignment to
\* self._cached_services: commands sent, list built or exception raised.
LiveQuery(k, d, n, show_all, oracle) ==
    The({IF r.exc # NoExc
         THEN [cmds |-> <<r.argv>>, ret |-> <<>>, exc |-> r.exc, connFailed |-> FALSE]
         ELSE The({[cmds |-> g.cmds, ret |-> g.services, exc |-> g.exc,
                    connFailed |-> ConnectionFailed(r.tried)] :
                       g \in {GetServices(k, d, n, IdsOf(r.resp), 1, oracle.insp,
                                          <<>>, <<r.argv>>)}}) :
             r \in {RemoteExecute(k, d, n, PsArgv(show_all), oracle.ps, "")}})

\* a Node.services that goes to the cache whenever update is False
Services_UpdateOnly(k, d, n, file, x, show_all, update, oracle) ==
    IF update
    THEN The({IF q.exc # NoExc
              THEN [path |-> "live", cmds |-> q.cmds, ret |-> <<>>, exc |-> q.exc,
                    file |-> file, saved |-> FALSE, connFailed |-> q.connFailed]
              ELSE [path |-> "live", cmds |-> q.cmds, ret |-> q.ret, exc |-> NoExc,
                    file |-> SaveServicesToCache(file, x, q.ret),
                    saved |-> TRUE, connFailed |-> q.connFailed] :
                  q \in {LiveQuery(k, d, n, show_all, oracle)}})
    ELSE [path |-> "cache", cmds |-> <<>>, ret |-> LoadServicesFromCache(file, x),
          exc |-> NoExc, file |-> file, saved |-> FALSE, connFailed |-> FALSE]

\* Node.services(show_all, update) of node x: path taken, commands sent,
\* list returned or exception raised, and the cache file it leaves.
Services(k, d, n, file, x, show_all, update, oracle) ==
    IF update \/ ~HaveCache(file, x)
    THEN The({IF q.exc # NoExc
              THEN [path |-> "live", cmds |-> q.cmds, ret |-> <<>>, exc |-> q.exc,
                    file |-> file, saved |-> FALSE, connFailed |-> q.connFailed]
              ELSE [path |-> "live", cmds |-> q.cmds, ret |-> q.ret, exc |-> NoExc,
                    file |-> SaveServicesToCache(file, x, q.ret),
                    saved |-> TRUE, connFailed |-> q.connFailed] :
                  q \in {LiveQuery(k, d, n, show_all, oracle)}})
    ELSE [path |-> "cache", cmds |-> <<>>, ret |-> LoadServicesFromCache(file, x),
          exc |-> NoExc, file |-> file, saved |-> FALSE, connFailed |-> FALSE]

\* the containers of the two nodes when the listings start
ListedDocker ==
    {[x \in Nodes |-> IF x = SvcNode THEN d
                      ELSE <<Container("c7", SvcName, SvcImage, "running")>>] :
        d \in {<<Container("c1", OtherName, OtherImage, "exited"),
                 Container("c2", SvcName, SvcImage, "running")>>,
               <<Container("c1", SvcName, SvcImage, "running")>>}}

InitCache ==
    /\ keys \in KeyStates
    /\ docker \in ListedDocker
    /\ nextId = 8
    /\ Idle
    /\ cache = NoCache
    /\ listing = NoListing
    /\ wrote = NoWrites
    /\ inv = NoInv
    /\ NoLookups

\* A call of Node.services on node x
NodeServices(x, show_all, update) ==
    /\ \E oracle \in Oracles(Len(docker[x])) :
           \E r \in {Services(keys, docker[x], nextId, cache, x, show_all, update, oracle)} :
              /\ cache' = r.file
              /\ listing' = [called |-> TRUE, node |-> x, show_all |-> show_all,
                             update |-> update, path |-> r.path, cmds |-> r.cmds,
                             ret |-> r.ret, exc |-> r.exc,
                             connFailed |-> r.connFailed,
                             hadEntry |-> HaveCache(cache, x),
                             hadFile |-> cache.exists]
              /\ wrote' = IF r.saved
                          THEN [wrote EXCEPT ![x] =
                                   [any |-> TRUE, services |-> r.ret,
                                    replaced |-> /\ HaveCache(cache, x)
                                                 /\ LoadServicesFromCache(cache, x) # r.ret]]
                          ELSE wrote
    /\ UNCHANGED <<keys, docker, nextId, svc, op, cont, old_id, pending,
                   launchExc, result, log, last, connLost, ops, inv, cli, listed, got>>

NextCache ==
    \E x \in Nodes, show_all \in BOOLEAN, update \in BOOLEAN :
        NodeServices(x, show_all, update)

SpecCache == InitCache /\ [][NextCache]_vars

----------------------------------------------------------------------------
(* Two invocations of the tool listing different nodes at the same time *)

Invocations == {1, 2}

NodeOf(i) == IF i = 1 THEN "n1" ELSE "n2"

Invocation(pc, services, snapshot) ==
    [pc |-> pc, services |-> services, snapshot |-> snapshot]

InitRace ==
    /\ keys \in KeyStates
    /\ docker \in ListedDocker
    /\ nextId = 8
    /\ Idle
    /\ cache = NoCache
    /\ listing = NoListing
    /\ wrote = NoWrites
    /\ inv = [p |-> [i \in Invocations |-> Invocation("query", <<>>, <<>>)],
              dumps |-> <<>>]
    /\ NoLookups

RaceUnchanged ==
    UNCHANGED <<keys, docker, nextId, svc, op, cont, old_id, pending, launchExc,
                result, log, last, connLost, ops, listing, wrote, cli, listed, got>>

\* Node.services(update=True) of invocation i, up to the assignment to
\* self._cached_services
RaceQuery(i) ==
    /\ inv.p[i].pc = "query"
    /\ \E show_all \in BOOLEAN, oracle \in Oracles(Len(docker[NodeOf(i)])) :
           \E q \in {LiveQuery(keys, docker[NodeOf(i)], nextId, show_all, oracle)} :
              inv' = [inv EXCEPT !.p[i] =
                         IF q.exc # NoExc THEN Invocation("raised", <<>>, <<>>)
                         ELSE Invocation("read", q.ret, <<>>)]
    /\ UNCHANGED cache
    /\ RaceUnchanged

\* _save_services_to_cache: the file is read (json.load fails on a file
\* another invocation has truncated and not yet written)
RaceRead(i) ==
    /\ inv.p[i].pc = "read"
    /\ inv' = [inv EXCEPT !.p[i] =
                  IF cache.exists /\ cache.empty
                  THEN Invocation("raised", @.services, <<>>)
                  ELSE Invocation("open", @.services, ReadCache(cache))]
    /\ UNCHANGED cache
    /\ RaceUnchanged

\* _save_services_to_cache: open(CACHE_FILE, "w")
RaceOpen(i) ==
    /\ inv.p[i].pc = "open"
    /\ cache' = Truncated
    /\ inv' = [inv EXCEPT !.p[i].pc = "dump"]
    /\ RaceUnchanged

\* the document an invocation writes: the dict it read, with its own entry
RaceDocument(i) ==
    WriteCache(UpdatedCache(inv.p[i].snapshot, NodeOf(i), inv.p[i].services))

\* _save_services_to_cache: json.dump(cache, fp) and the close of the file
RaceDump(i) ==
    /\ inv.p[i].pc = "dump"
    /\ cache' = RaceDocument(i)
    /\ inv' = [inv EXCEPT !.p[i].pc = "done", !.dumps = Append(@, i)]
    /\ RaceUnchanged

NextRace ==
    \/ \E i \in Invocations : RaceQuery(i)
    \/ \E i \in Invocations : RaceRead(i)
    \/ \E i \in Invocations : RaceOpen(i)
    \/ \E i \in Invocations : RaceDump(i)

SpecRace == InitRace /\ [][NextRace]_vars

----------------------------------------------------------------------------
(* Claims about Node.services and the cache file *)

\* C4: on a cache file without an entry for node x (or without a cache
\* file), services(update=False) sends the same commands, returns the same
\* list and leaves the same file as services(update=True), for the same
\* show_all and the same remote responses.
C4_CacheMissIsLiveFetch ==
    \A x \in Nodes, show_all \in BOOLEAN :
        ~HaveCache(cache, x) =>
            \A oracle \in Oracles(Len(docker[x])) :
                Services(keys, docker[x], nextId, cache, x, show_all, FALSE, oracle)
                    = Services(keys, docker[x], nextId, cache, x, show_all, TRUE, oracle)

\* a call with update=False on a file that holds only the other node's entry
\* fetched a non-empty list and wrote it
C4_CacheMissFetched ==
    /\ listing.called /\ ~listing.update
    /\ listing.hadFile /\ ~listing.hadEntry
    /\ listing.path = "live" /\ listing.ret # <<>>
    /\ LoadServicesFromCache(cache, listing.node) = listing.ret

\* C5: services(update=False) returns the list last written to the cache
\* for the node, same length, order and persisted attributes, whatever
\* entry the node had before that write.
C5_CacheRoundTrip ==
    (listing.called /\ listing.path = "cache") =>
        /\ wrote[listing.node].any
        /\ listing.ret = wrote[listing.node].services
        /\ listing.exc = NoExc
        /\ listing.cmds = <<>>

\* a non-empty list that replaced a different entry was read back
C5_ReplacedEntryRead ==
    /\ listing.called /\ listing.path = "cache"
    /\ listing.ret # <<>>
    /\ wrote[listing.node].replaced

BothDumped == \A i \in Invocations : inv.p[i].pc = "done"

LastDump == inv.dumps[Len(inv.dumps)]

Other(i) == CHOOSE j \in Invocations : j # i

\* C6: two invocations saving the lists of different nodes can leave the
\* file without the entry of one of them: the file ends as the document of
\* the invocation that dumped last, which holds the other's entry only if
\* that invocation read the file after the other had dumped.
C6_LastDumpWins ==
    (inv # NoInv /\ BothDumped) =>
        /\ cache = RaceDocument(LastDump)
        /\ HaveCache(cache, NodeOf(Other(LastDump)))
               <=> NodeOf(Other(LastDump)) \in DOMAIN inv.p[LastDump].snapshot

\* both invocations have written and the entry of one is gone
C6_LostUpdate ==
    /\ inv # NoInv /\ BothDumped
    /\ \E i \in Invocations : ~HaveCache(cache, NodeOf(i))

\* C7: when the connection fails during the docker ps query of
\* Node.services, the call returns an empty list and raises nothing.
C7_ConnectionFailureListsNothing ==
    (listing.called /\ listing.connFailed) =>
        /\ listing.exc = NoExc
        /\ listing.ret = <<>>

\* the listing of a node with a running container came back empty
C7_DegradedToEmpty ==
    /\ listing.called /\ listing.connFailed
    /\ listing.ret = <<>> /\ listing.exc = NoExc
    /\ \E c \in Named(docker[listing.node], SvcName) : c.status = "running"

----------------------------------------------------------------------------
(* Claims about Service.redeploy *)

Finished(o) == op = o /\ result.kind # "none"

Canonical == Named(docker[SvcNode], SvcName)

\* the calls of the log made by the step named label
CallsBy(label) == {i \in 1..Len(log) : log[i].by = label}

\* C1: when launch() fails inside redeploy(), redeploy() ends with exactly
\* one container under the canonical name, running, the original one
\* (old_id), and raises the launch failure.
C1_FailedLaunchRestoresOriginal ==
    (Finished("redeploy") /\ launchExc # NoExc) =>
        /\ Cardinality(Canonical) = 1
        /\ \A c \in Canonical : c.id = old_id /\ c.status = "running"
        /\ result.kind = "raised"
        /\ result.exc = launchExc

\* C2: whatever makes launch() fail inside redeploy(), the rename back and
\* the start of the original container are issued, in this order, before
\* the failure reaches the caller, and that failure is launch's.
C2_RollbackOnEveryLaunchFailure ==
    (Finished("redeploy") /\ launchExc # NoExc) =>
        /\ \E i \in CallsBy("rename_back"), j \in CallsBy("start") : i < j
        /\ result.kind = "raised"
        /\ result.exc = launchExc

\* C3: when redeploy() returns without raising, the old container has been
\* removed by a terminate command issued after the launch, exactly one
\* container carries the canonical name, and the Service's id is that new
\* container's and differs from old_id.
C3_SuccessfulRedeployReplaces ==
    (Finished("redeploy") /\ result.kind = "returned") =>
        /\ old_id \notin Ids(docker[SvcNode])
        /\ \E i \in CallsBy("run"), j \in CallsBy("rm_old") : i < j
        /\ Cardinality(Canonical) = 1
        /\ \A c \in Canonical : c.id = svc.id
        /\ svc.id # old_id

----------------------------------------------------------------------------
(* Claims about Node._remote_execute and Node.pull *)

\* C8: a connection failure in _remote_execute is raised to every caller
\* other than the service listing.
C8_ConnectionFailureIsRaised ==
    (result.kind # "none" /\ op # "redeploy" /\ connLost) => result.kind = "raised"

\* C9: _remote_execute raises the "no key" error exactly when neither
\* id_dsa nor id_rsa exists, and otherwise attempts the command.
C9_NoKeyErrorIffNoCandidate ==
    last.argv # <<>> =>
        /\ (last.exc = NoKeyError) <=> (~keys["id_dsa"] /\ ~keys["id_rsa"])
        /\ (keys["id_dsa"] \/ keys["id_rsa"]) => last.tried # <<>>

HasMarker(resp) ==
    /\ ~resp.none
    /\ \/ Contains("Downloaded newer image", resp.text)
       \/ Contains("Image is up to date", resp.text)

\* C10: pull() issues the login and then the pull command, returns success
\* exactly when the pull's response carries a success marker, and raises
\* an error whose detail is the raw remote output for every other response.
C10_PullSucceedsIffMarker ==
    (Finished("pull") /\ Len(log) = 2 /\ last.exc = NoExc) =>
        /\ log[1].argv[2] = "login" /\ log[2].argv[2] = "pull"
        /\ (result.kind = "returned") <=> HasMarker(last.resp)
        /\ result.kind = "raised" => result.exc.detail = last.resp

----------------------------------------------------------------------------
(* Claims about Service.from_json, retries, the order of redeploy and the
   status refresh *)

\* what follows the first sep of s
AfterFirst(s, sep) ==
    LET i == CHOOSE i \in 1..Len(s) :
                 /\ SubSeq(s, i, i) = sep
                 /\ \A j \in 1..(i - 1) : SubSeq(s, j, j) # sep
    IN SubSeq(s, i + 1, Len(s))

\* the Service the caller holds was built by from_json from an inspection
FromInspection == op \notin {"idle", "launch"}

\* C13: from_json maps each Config.Env entry KEY=VALUE to env[KEY] = VALUE,
\* VALUE being everything after the first "=", further "=" included.
C13_EnvValueKeepsDelimiter ==
    FromInspection =>
        \A i \in 1..Len(ConfigOf(svc.image).Env) :
            LET item == ConfigOf(svc.image).Env[i]
                key == Split(item, "=")[1]
            IN /\ key \in DOMAIN svc.env
               /\ svc.env[key] = AfterFirst(item, "=")

\* the attempts of a call in which the command was started on the node
Executions(tried) == {i \in 1..Len(tried) : tried[i] # "conn"}

\* C14: one call of _remote_execute runs its command on the node at most
\* once, whatever the outcome of the attempt.
C14_AtMostOneExecution ==
    last.argv # <<>> => Cardinality(Executions(last.tried)) <= 1

\* the operation ended while still in the pull that opens redeploy
EndedInFirstPull ==
    /\ Finished("redeploy")
    /\ CallsBy("stop") = {}
    /\ log # <<>> => log[Len(log)].by \in {"login", "pull"}

\* C15: redeploy sends pull, stop, rename to <name>-old, launch in this
\* order, and when the first pull fails it raises having sent no stop,
\* rename, run or remove, the container being as it was under its name.
C15_RedeployOrder ==
    /\ op = "redeploy" =>
           /\ \A i \in CallsBy("stop") : \E j \in CallsBy("pull") : j < i
           /\ \A i \in CallsBy("rename_old") : \E j \in CallsBy("stop") : j < i
           /\ \A i \in CallsBy("run") : \E j \in CallsBy("rename_old") : j < i
           /\ \A i \in CallsBy("run") :
                  \E j \in CallsBy("pull") :
                      /\ j < i
                      /\ \E l \in CallsBy("rename_old") : l < j
    /\ EndedInFirstPull =>
           /\ result.kind = "raised"
           /\ \A i \in 1..Len(log) : log[i].by \in {"login", "pull"}
           /\ \E c \in Canonical :
                  c.id = svc.id /\ c.name = svc.name /\ c.status = svc.status

\* a redeploy whose first pull command was sent and answered without a
\* success marker has ended
C15_FirstPullFailed ==
    /\ EndedInFirstPull
    /\ CallsBy("pull") # {}
    /\ last.tried # <<>>
    /\ ~HasMarker(last.resp)

StateChanging == {"start", "stop", "launch", "redeploy", "terminate"}

\* C16: when a state-changing operation returns, the last remote command it
\* sent is the inspection, made after every command that changes state, and
\* the Service's status is the status the node has for its container.
C16_StatusRefreshed ==
    (op \in StateChanging /\ result.kind = "returned") =>
        /\ log # <<>>
        /\ log[Len(log)].by = "inspect"
        /\ \E c \in Ids(docker[SvcNode]) :
               c = svc.id /\ ById(docker[SvcNode], c).status = svc.status

----------------------------------------------------------------------------
(* Claim about the cache entry a live query leaves *)

\* C17: a call of Node.services that takes the live path and returns leaves
\* the node's cache entry equal to the list it returned and the entries of
\* the other nodes as they were, an empty list after a connection failure
\* included; a call that raises leaves the cache file unchanged.
C17_LiveQueryCoherent ==
    [][(listing'.called /\ listing'.path = "live") =>
           IF listing'.exc = NoExc
           THEN /\ HaveCache(cache', listing'.node)
                /\ LoadServicesFromCache(cache', listing'.node) = listing'.ret
                /\ \A y \in Nodes \ {listing'.node} :
                       /\ HaveCache(cache', y) <=> HaveCache(cache, y)
                       /\ LoadServicesFromCache(cache', y)
                              = LoadServicesFromCache(cache, y)
           ELSE cache' = cache]_vars

\* a live query that lost its connection has replaced a non-empty entry of
\* the node by the empty list
C17_EmptyOverwrote ==
    /\ listing.called /\ listing.path = "live" /\ listing.connFailed
    /\ listing.exc = NoExc /\ listing.ret = <<>>
    /\ listing.hadEntry /\ wrote[listing.node].replaced
    /\ HaveCache(cache, listing.node)
    /\ LoadServicesFromCache(cache, listing.node) = <<>>

----------------------------------------------------------------------------
(* list_nodes and get_node *)

MaxNodes == 3        \* nodes the providers list

NodeNames == {"n1", "n2", "n10"}

\* the names get_node is asked for
Wanted == NodeNames \cup {"N1"}

\* the listings of at most n nodes
RECURSIVE Listings(_)
Listings(n) ==
    IF n = 0 THEN {<<>>}
    ELSE Listings(n - 1)
         \cup {Append(l, x) : l \in {m \in Listings(n - 1) : Len(m) = n - 1},
                              x \in NodeNames}

\* list_nodes(): a node object per droplet and per server the providers
\* list, the droplets first
list_nodes(names) == [i \in 1..Len(names) |-> [name |-> names[i], at |-> i]]

\* the for loop of get_node from the i-th node on, and the raise after it
RECURSIVE GetNodeFrom(_, _, _)
GetNodeFrom(all_nodes, name, i) ==
    IF i > Len(all_nodes)
    THEN [exc |-> Exc("Exception", Text("No such node: " \o name)), ret |-> None]
    ELSE IF all_nodes[i].name = name
    THEN [exc |-> NoExc, ret |-> all_nodes[i]]
    ELSE GetNodeFrom(all_nodes, name, i + 1)

\* a get_node that falls off its loop
get_node_Silent(names, name) ==
    IF \E i \in 1..Len(names) : names[i] = name
    THEN GetNodeFrom(list_nodes(names), name, 1)
    ELSE [exc |-> NoExc, ret |-> None]

\* get_node(name)
get_node(names, name) ==
    GetNodeFrom(list_nodes(names), name, 1)

InitNodes ==
    /\ keys = [f \in {"id_dsa", "id_rsa"} |-> TRUE]
    /\ docker = [x \in Nodes |-> <<>>]
    /\ nextId = 1
    /\ Idle
    /\ cache = NoCache
    /\ listing = NoListing
    /\ wrote = NoWrites
    /\ inv = NoInv
    /\ cli = NoCli
    /\ listed \in Listings(MaxNodes)
    /\ got = NoLookup

\* A call of get_node(name)
GetNode(name) ==
    /\ \E r \in {get_node(listed, name)} :
           got' = [called |-> TRUE, name |-> name, exc |-> r.exc, ret |-> r.ret]
    /\ UNCHANGED <<keys, docker, nextId, svc, op, cont, old_id, pending,
                   launchExc, result, log, last, connLost, ops, cache, listing,
                   wrote, inv, cli, listed>>

NextNodes == \E name \in Wanted : GetNode(name)

SpecNodes == InitNodes /\ [][NextNodes]_vars

----------------------------------------------------------------------------
(* Claim about get_node *)

\* the places of the listing that hold exactly this name
Matches(name) == {i \in 1..Len(listed) : listed[i] = name}

\* C12: get_node(name) returns the first node of the listing whose name is
\* exactly name when there is one, and for every listing without one, the
\* empty listing included, raises a "not found" error and returns nothing.
C12_GetNodeFindsOrRaises ==
    got.called =>
        IF Matches(got.name) # {}
        THEN /\ got.exc = NoExc
             /\ got.ret = [name |-> got.name,
                           at |-> CHOOSE i \in Matches(got.name) :
                                      \A j \in Matches(got.name) : i <= j]
        ELSE /\ got.exc = Exc("Exception", Text("No such node: " \o got.name))
             /\ got.ret = None

\* a lookup in a listing that holds only a longer name has raised
C12_NearMissRaised ==
    /\ got.called /\ got.name = "n1"
    /\ listed # <<>> /\ \A i \in 1..Len(listed) : listed[i] = "n10"
    /\ got.exc.type = "Exception"

----------------------------------------------------------------------------
(* list_services and the services command of the tool *)

\* the nodes list_nodes gives the listings: a Docker Cloud node among them
CliNodes == <<"n1", "app.dockerapp.io", "n2">>

\* "if 'dockerapp.io' not in node.name"
Listable(name) == ~Contains("dockerapp.io", name)

NoPaths == [x \in Nodes |-> "none"]

\* The for loop of list_services from the i-th node on: node.services()
\* with its defaults (show_all=False, update=True) on each listable node;
\* an exception of one ends the loop.  acc is what has been gathered.
RECURSIVE ListFrom(_, _, _, _, _, _, _)
ListFrom(i, names, k, d, n, oracles, acc) ==
    IF i > Len(names) THEN acc
    ELSE IF ~Listable(names[i]) THEN ListFrom(i + 1, names, k, d, n, oracles, acc)
    ELSE The({IF r.exc # NoExc
              THEN [acc EXCEPT !.exc = r.exc, !.ret = <<>>, !.file = r.file,
                               !.cmds = @ \o r.cmds, !.paths[names[i]] = r.path]
              ELSE ListFrom(i + 1, names, k, d, n, oracles,
                            [acc EXCEPT !.ret = @ \o r.ret, !.file = r.file,
                                        !.cmds = @ \o r.cmds,
                                        !.paths[names[i]] = r.path]) :
                 r \in {Services(k, d[names[i]], n, acc.file, names[i], FALSE, TRUE,
                                 oracles[names[i]])}})

UnexpectedKeyword(kw) ==
    Exc("TypeError",
        Text("list_services() got an unexpected keyword argument '" \o kw \o "'"))

\* list_services called with the keyword arguments kwargs: the function
\* takes no parameter, so any keyword is a TypeError before its body runs
list_services(kwargs, names, k, d, n, file, oracles) ==
    IF kwargs # {}
    THEN [exc |-> UnexpectedKeyword(CHOOSE kw \in kwargs : TRUE), ret |-> <<>>,
          file |-> file, cmds |-> <<>>, paths |-> NoPaths]
    ELSE ListFrom(1, names, k, d, n, oracles,
                  [exc |-> NoExc, ret |-> <<>>, file |-> file, cmds |-> <<>>,
                   paths |-> NoPaths])

InitCli ==
    /\ keys \in KeyStates
    /\ docker \in ListedDocker
    /\ nextId = 8
    /\ Idle
    /\ cache = NoCache
    /\ listing = NoListing
    /\ wrote = NoWrites
    /\ inv = NoInv
    /\ cli = NoCli
    /\ listed = CliNodes
    /\ got = NoLookup

\* what the environment decides for the nodes during one listing
NodeOracles ==
    {[x \in Nodes |-> IF x = "n1" THEN o1 ELSE o2] :
        o1 \in Oracles(Len(docker["n1"])), o2 \in Oracles(Len(docker["n2"]))}

Listed(command, fast, r) ==
    /\ cache' = r.file
    /\ cli' = [called |-> TRUE, command |-> command, fast |-> fast,
               exc |-> r.exc, ret |-> r.ret, paths |-> r.paths, cmds |-> r.cmds,
               had |-> [x \in Nodes |-> HaveCache(cache, x)]]
    /\ UNCHANGED <<keys, docker, nextId, svc, op, cont, old_id, pending,
                   launchExc, result, log, last, connLost, ops, listing,
                   wrote, inv, listed, got>>

\* list_services() called by a program that imports the package
ListServices ==
    \E oracles \in NodeOracles :
        \E r \in {list_services({}, listed, keys, docker, nextId, cache, oracles)} :
            Listed("list_services", FALSE, r)

\* the services command: list_services(update=not fast), then the table
CliServices(fast) ==
    \E oracles \in NodeOracles :
        \E r \in {list_services({"update"}, listed, keys, docker, nextId, cache,
                                oracles)} :
            Listed("services", fast, r)

NextCli ==
    \/ ListServices
    \/ \E fast \in BOOLEAN : CliServices(fast)

SpecCli == InitCli /\ [][NextCli]_vars

----------------------------------------------------------------------------
(* Claim about the fast flag *)

\* C11: the services command without the fast flag gets the list of every
\* node by a live query made in that invocation, and with the fast flag
\* answers every node that has a cache entry from the cache.
C11_CacheOnlyWhenFast ==
    (cli.called /\ cli.command = "services") =>
        \A i \in 1..Len(listed) :
            Listable(listed[i]) =>
                IF ~cli.fast THEN cli.paths[listed[i]] = "live"
                ELSE cli.had[listed[i]] => cli.paths[listed[i]] = "cache"

====
